---- MODULE Spec2Model ----
(***************************************************************************)
(* A model of src/slackbot.py: the SlackBot session (main, initUserIdDict, *)
(* enter_rtm_loop, _parse_rtm_event, _parse_command, sendMessage) and the  *)
(* history paginator (fetchHistory).                                       *)
(*                                                                         *)
(* Text is a sequence of atoms.  The atoms "." and " " are the single      *)
(* characters dot and blank; every other atom is a block of letters, so    *)
(* two different atom sequences always denote two different strings.       *)
(* A Python dict is a function whose DOMAIN is its set of keys; a missing  *)
(* key is a key outside the DOMAIN (a lookup of it raises KeyError).       *)
(***************************************************************************)
EXTENDS Integers, Sequences, FiniteSets, TLC

VARIABLES
    pc,          \* position of main(): start, connect, connecting, read, parse, done,
                 \* crashed
    userIdDict,  \* self.userIdDict
    loadOk,      \* rsp["ok"] of the last users.list call: "pending", "ok", "failed"
    listed,      \* rsp["members"] of the last users.list call
    loads,       \* number of initUserIdDict calls made
    connects,    \* number of rtm_connect calls made
    online,      \* enter_rtm_loop's online: TRUE once line 111 has set it
    event,       \* the value of the last rtm_read()
    nread,       \* number of rtm_read() calls that returned an event
    outbox,      \* the chat.postMessage calls made, in order
    lastlog,     \* the log records written by the last step
    cpc,         \* position of a direct _parse_command call: idle, call, returned, raised
    cmd,         \* its cmd argument
    issuer,      \* its userId argument
    hpc,         \* position of fetchHistory: idle, fetch, returned, raised
    hasMore,     \* fetchHistory's hasMore
    cur_cursor,  \* fetchHistory's cur_cursor
    msgs,        \* fetchHistory's msgs
    calls,       \* the cursors of the conversations.history calls made, in order
    upstream     \* what conversations.history answers to its 1st, 2nd, ... call

vars == <<pc, userIdDict, loadOk, listed, loads, connects, online, event, nread,
          outbox, lastlog, cpc, cmd, issuer, hpc, hasMore, cur_cursor, msgs, calls, upstream>>

mainVars == <<pc, userIdDict, loadOk, listed, loads, connects, online, event, nread,
              outbox, lastlog>>
loadVars == <<userIdDict, loadOk, listed, loads>>
cmdVars == <<cpc, cmd, issuer>>
histVars == <<hpc, hasMore, cur_cursor, msgs, calls, upstream>>

(***************************************************************************)
(* Bounds of the model.                                                    *)
(***************************************************************************)
MaxEvents == 2
MaxMembers == 2
MaxPages == 3
MaxCmdLen == 6
MaxLoads == 4

(***************************************************************************)
(* Small input sets.                                                       *)
(***************************************************************************)
UserIds == {"U1", "U2"}
Atoms == {".", " ", "help", "Help", "echo", "fortune", "a"}
Whitespace == {" "}

SeqsUpTo(S, n) == UNION {[1..k -> S] : k \in 0..n}

\* message texts read by the session loop
Texts ==
    { <<>>, <<"a">>, <<"help">>, <<" ", ".", "help">>,
      <<".">>, <<".", " ">>, <<".", "help">>, <<".", "Help">>, <<".", " ", "help">>,
      <<".", "echo">>, <<".", "echo", " ", "a">>, <<".", "fortune">> }

\* command strings handed to _parse_command directly
CmdTexts == {<<".">> \o t : t \in SeqsUpTo(Atoms, MaxCmdLen - 1)}

\* texts carried by edited, deleted and subtyped messages
OtherTexts == {<<".", "help">>, <<"a">>}

\* results of running the external fortune program (line 200-203)
FortuneOutcomes ==
    {[kind |-> "ok", out |-> "adage"], [kind |-> "TimeoutExpired"],
     [kind |-> "FileNotFoundError"]}

(***************************************************************************)
(* Python string operations used by the code.                              *)
(***************************************************************************)
\* a sentinel test that skips leading blanks
StartsWithDotLoose(s) ==
    \E i \in 1..Len(s) : s[i] = "." /\ \A j \in 1..(i - 1) : s[j] = " "

\* str.startswith(".")
StartsWithDot(s) == Len(s) > 0 /\ s[1] = "."

RECURSIVE LStrip(_)
LStrip(s) ==
    IF s # <<>> /\ s[1] \in Whitespace THEN LStrip(Tail(s)) ELSE s

RECURSIVE RStrip(_)
RStrip(s) ==
    IF s # <<>> /\ s[Len(s)] \in Whitespace
    THEN RStrip(SubSeq(s, 1, Len(s) - 1)) ELSE s

\* str.strip()
Strip(s) == RStrip(LStrip(s))

\* a slice that cuts nothing
DropNothing(s) == s

\* s[1:], for s empty or starting with a one-character atom (here the dot)
DropFirstChar(s) == IF s = <<>> THEN <<>> ELSE Tail(s)

\* str.split(): the maximal runs of non-whitespace, in order
RECURSIVE SplitFrom(_, _, _)
SplitFrom(s, cur, acc) ==
    IF s = <<>>
    THEN IF cur = <<>> THEN acc ELSE Append(acc, cur)
    ELSE IF s[1] \in Whitespace
         THEN SplitFrom(Tail(s), <<>>, IF cur = <<>> THEN acc ELSE Append(acc, cur))
         ELSE SplitFrom(Tail(s), Append(cur, s[1]), acc)

Split(s) == SplitFrom(s, <<>>, <<>>)

(***************************************************************************)
(* _parse_command                                                          *)
(***************************************************************************)
\* the command table, in insertion order (line 174-176)
commands ==
    << [name |-> <<"help">>, descr |-> "displays this list of commands"],
       [name |-> <<"fortune">>, descr |-> "print a random, hopefully interesting, adage"],
       [name |-> <<"echo">>, descr |-> "test command"] >>

\* a lookup that ignores case
commandKeysAnyCase == {<<"help">>, <<"fortune">>, <<"echo">>, <<"Help">>}

\* commands.keys() (line 190)
commandKeys == {commands[i].name : i \in 1..Len(commands)}

\* a help text that stops after the first command
help_textFirstOnly == [kind |-> "help", lines |-> <<commands[1]>>]

\* the help text: one "name - description" line per command (line 179-183)
help_text == [kind |-> "help", lines |-> commands]

\* "unknown command: *{}*".format(name)
UnknownText(name) == [kind |-> "unknown", name |-> name]

\* str(cmd_split)
EchoText(args) == [kind |-> "echo", args |-> args]

\* the stdout of the fortune program
FortuneText(out) == [kind |-> "fortune", out |-> out]

\* a reply posted to a fixed channel instead of the one asked for
SendToGeneral(msg, channel) == [msg |-> msg, channel |-> "general"]

\* one sendMessage(msg, channel) call (line 36-46)
Send(msg, channel) == [msg |-> msg, channel |-> channel]

\* cut the leading dot and split (line 186)
CmdSplit(c) == Split(DropFirstChar(Strip(c)))

\* the sends made and the exception raised, if any, by _parse_command(c, userId)
\* when the fortune program behaves as fo
ParseCommand(c, userId, fo) ==
    LET cmd_split == CmdSplit(c) IN
    IF Len(cmd_split) = 0
    THEN [sends |-> <<>>, raised |-> "none"]
    ELSE IF cmd_split[1] \notin commandKeys
    THEN [sends |-> <<Send(UnknownText(cmd_split[1]), userId), Send(help_text, userId)>>,
          raised |-> "none"]
    ELSE IF cmd_split[1] = <<"help">>
    THEN [sends |-> <<Send(help_text, userId)>>, raised |-> "none"]
    ELSE IF cmd_split[1] = <<"echo">>
    THEN [sends |-> <<Send(EchoText(Tail(cmd_split)), userId)>>, raised |-> "none"]
    ELSE IF cmd_split[1] = <<"fortune">>
    THEN IF fo.kind = "ok"
         THEN [sends |-> <<Send(FortuneText(fo.out), userId)>>, raised |-> "none"]
         ELSE [sends |-> <<>>, raised |-> fo.kind]
    ELSE [sends |-> <<>>, raised |-> "none"]

(***************************************************************************)
(* Raw events: a sequence of dicts.                                        *)
(***************************************************************************)
Opt(key, S) == {<<>>} \cup {key :> v : v \in S}

Dicts2(A, B) == {a @@ b : a \in A, b \in B}

TextDicts == {<<>>} \cup {"text" :> t : t \in OtherTexts}

PlainRecords ==
    Dicts2({"type" :> "message"}, Dicts2(Opt("text", Texts), Opt("user", UserIds)))

DeletedRecords ==
    Dicts2({("type" :> "message") @@ ("subtype" :> "message_deleted")},
           Opt("previous_message", TextDicts))

ChangedRecords ==
    Dicts2({("type" :> "message") @@ ("subtype" :> "message_changed")},
           Dicts2(Opt("previous_message", TextDicts),
                  Opt("message", {"text" :> <<".", "help">>, <<>>})))

SubtypedRecords ==
    {("type" :> "message") @@ ("subtype" :> "bot_message")
        @@ ("text" :> <<".", "help">>) @@ ("user" :> "U1")}

OtherRecords ==
    Dicts2({"type" :> "hello", "type" :> "desktop_notification",
            "type" :> "presence_change", <<>>},
           Opt("text", {<<".", "help">>}))
    \cup Dicts2({"type" :> "user_typing"}, Opt("user", UserIds))

Records ==
    PlainRecords \cup DeletedRecords \cup ChangedRecords \cup SubtypedRecords
        \cup OtherRecords

\* a further element delivered in the same read
ExtraRecords == {("type" :> "message") @@ ("text" :> <<".", "help">>) @@ ("user" :> "U1")}

\* first elements of the reads that deliver two elements
FirstOfTwo ==
    OtherRecords
        \cup {("type" :> "message") @@ ("text" :> <<".", "echo">>) @@ ("user" :> "U2")}

RawEvents ==
    {<<>>} \cup {<<r>> : r \in Records}
           \cup {<<r, x>> : r \in FirstOfTwo, x \in ExtraRecords}

(***************************************************************************)
(* _parse_rtm_event                                                        *)
(***************************************************************************)
Log(level, what, arg) == [level |-> level, what |-> what, arg |-> arg]

\* the handler's outcome: log records written, sends made, exception escaping
Handled(log) == [log |-> log, sends |-> <<>>, raised |-> "none"]

\* a handler without its except clause: the KeyError escapes
KeyErrUncaught(key) == [log |-> <<>>, sends |-> <<>>, raised |-> "KeyError"]

\* except KeyError (line 164-166): the key and the dumped payload are logged
KeyErr(key) == Handled(<<Log("error", "KeyError", key), Log("error", "dump", "event")>>)

\* a regular-message branch that dispatches before it looks the sender up
RegularMessageDispatchFirst(rsp, dict, fo) ==
    IF "text" \notin DOMAIN rsp THEN KeyErr("text")
    ELSE IF "user" \notin DOMAIN rsp THEN KeyErr("user")
    ELSE IF StartsWithDot(rsp["text"])
    THEN LET r == ParseCommand(rsp["text"], rsp["user"], fo) IN
         [log |-> <<>>, sends |-> r.sends, raised |-> r.raised]
    ELSE IF rsp["user"] \notin DOMAIN dict THEN KeyErr(rsp["user"])
    ELSE Handled(<<Log("info", "msg", dict[rsp["user"]])>>)

\* the regular-message branch (line 148-153)
RegularMessage(rsp, dict, fo) ==
    IF "text" \notin DOMAIN rsp THEN KeyErr("text")
    ELSE IF "user" \notin DOMAIN rsp THEN KeyErr("user")
    ELSE IF rsp["user"] \notin DOMAIN dict THEN KeyErr(rsp["user"])
    ELSE LET info == <<Log("info", "msg", dict[rsp["user"]])>> IN
         IF StartsWithDot(rsp["text"])
         THEN LET r == ParseCommand(rsp["text"], rsp["user"], fo) IN
              [log |-> info, sends |-> r.sends, raised |-> r.raised]
         ELSE Handled(info)

\* the subtype branch (line 136-146)
SubtypedMessage(rsp) ==
    IF rsp["subtype"] = "message_deleted"
    THEN IF "previous_message" \notin DOMAIN rsp THEN KeyErr("previous_message")
         ELSE IF "text" \notin DOMAIN rsp["previous_message"] THEN KeyErr("text")
         ELSE Handled(<<Log("info", "deleted", "")>>)
    ELSE IF rsp["subtype"] = "message_changed"
    THEN IF "previous_message" \notin DOMAIN rsp THEN KeyErr("previous_message")
         ELSE IF "text" \notin DOMAIN rsp["previous_message"] THEN KeyErr("text")
         ELSE IF "message" \notin DOMAIN rsp THEN KeyErr("message")
         ELSE IF "text" \notin DOMAIN rsp["message"] THEN KeyErr("text")
         ELSE Handled(<<Log("info", "changed", "")>>)
    ELSE Handled(<<Log("warning", "dump", "event")>>)

\* a handler that looks at the last element of the read
LastElement(ev) == ev[Len(ev)]

\* rsp = event[0] (line 132)
FirstElement(ev) == ev[1]

\* _parse_rtm_event(ev) with self.userIdDict = dict (line 121-166)
ParseRtmEvent(ev, dict, fo) ==
    IF Len(ev) = 0 THEN Handled(<<>>)
    ELSE LET rsp == FirstElement(ev) IN
         IF "type" \notin DOMAIN rsp THEN KeyErr("type")
         ELSE IF rsp["type"] = "message"
         THEN IF "subtype" \in DOMAIN rsp
              THEN SubtypedMessage(rsp)
              ELSE RegularMessage(rsp, dict, fo)
         ELSE IF rsp["type"] = "hello"
         THEN Handled(<<Log("debug", "hello", "")>>)
         ELSE IF rsp["type"] = "user_typing"
         THEN IF "user" \notin DOMAIN rsp THEN KeyErr("user")
              ELSE IF rsp["user"] \notin DOMAIN dict THEN KeyErr(rsp["user"])
              ELSE Handled(<<Log("info", "typing", dict[rsp["user"]])>>)
         ELSE IF rsp["type"] = "desktop_notification"
         THEN Handled(<<Log("info", "desktop_notification", "")>>)
         ELSE Handled(<<Log("warning", "dump", "event")>>)

(***************************************************************************)
(* initUserIdDict                                                          *)
(***************************************************************************)
\* entries of a users.list response
Members ==
    { [id |-> "U1", real_name |-> "Alice"], [id |-> "U2", real_name |-> "Bob"],
      [id |-> "U1", real_name |-> "Bob"] }

UsersListResponses ==
    {[ok |-> FALSE, members |-> <<>>]}
        \cup {[ok |-> TRUE, members |-> m] : m \in SeqsUpTo(Members, MaxMembers)}

\* self.userIdDict[m["id"]] = m["real_name"]
SetItem(dict, key, value) ==
    [k \in DOMAIN dict \cup {key} |-> IF k = key THEN value ELSE dict[k]]

\* for m in rsp["members"]: ... (line 98-99)
RECURSIVE LoadMembers(_, _)
LoadMembers(dict, members) ==
    IF members = <<>> THEN dict
    ELSE LoadMembers(SetItem(dict, members[1].id, members[1].real_name), Tail(members))

\* one run of initUserIdDict() in which users.list answers rsp (line 94-102)
LoadEffect(rsp) ==
    /\ loads' = loads + 1
    /\ listed' = rsp.members
    /\ IF rsp.ok
       THEN /\ userIdDict' = LoadMembers(userIdDict, rsp.members)
            /\ loadOk' = "ok"
            /\ lastlog' = <<Log("debug", "got users", "")>>
       ELSE /\ userIdDict' = userIdDict
            /\ loadOk' = "failed"
            /\ lastlog' = <<Log("error", "failed to fetch user list!", "")>>

\* a member list that is also refreshed while the loop runs
InitUserIdDictRefreshing ==
    /\ pc \in {"start", "read"}
    /\ loads < 2
    /\ \E rsp \in UsersListResponses : LoadEffect(rsp)
    /\ pc' = IF pc = "start" THEN "connect" ELSE pc
    /\ UNCHANGED <<connects, online, event, nread, outbox, cmdVars, histVars>>

\* initUserIdDict() called by main (line 90-102, 210)
InitUserIdDict ==
    /\ pc = "start"
    /\ \E rsp \in UsersListResponses : LoadEffect(rsp)
    /\ pc' = "connect"
    /\ UNCHANGED <<connects, online, event, nread, outbox, cmdVars, histVars>>

(***************************************************************************)
(* enter_rtm_loop                                                          *)
(***************************************************************************)
\* what rtm_connect can do: return True, return False, raise TimeoutError
ConnectOutcomes == {"True", "False", "TimeoutError"}

\* self.client.rtm_connect(with_team_state=False) is called (line 109)
RtmConnect ==
    /\ pc = "connect"
    /\ connects' = connects + 1
    /\ pc' = "connecting"
    /\ lastlog' = <<>>
    /\ UNCHANGED <<loadVars, online, event, nread, outbox, cmdVars, histVars>>

\* a loop that tries the connect again when the handshake fails
RtmConnectReturnRetrying ==
    /\ pc = "connecting"
    /\ connects < 3
    /\ \E r \in ConnectOutcomes :
          /\ pc' = IF r = "True" THEN "read" ELSE "connect"
          /\ online' = (r = "True")
          /\ lastlog' = IF r = "True" THEN <<Log("info", "Connected to rtm api...", "")>>
                        ELSE <<Log("error", "Connection Failed", "")>>
    /\ UNCHANGED <<loadVars, connects, event, nread, outbox, cmdVars, histVars>>

\* rtm_connect returns or raises (line 109-111, 116-119)
RtmConnectReturn ==
    /\ pc = "connecting"
    /\ \E r \in ConnectOutcomes :
          /\ pc' = IF r = "True" THEN "read" ELSE "done"
          /\ online' = (r = "True")
          /\ lastlog' = IF r = "True" THEN <<Log("info", "Connected to rtm api...", "")>>
                        ELSE IF r = "False" THEN <<Log("error", "Connection Failed", "")>>
                        ELSE <<Log("error", "Connection timeout!", "")>>
    /\ UNCHANGED <<loadVars, connects, event, nread, outbox, cmdVars, histVars>>

\* event = self.client.rtm_read() returns (line 113)
RtmRead ==
    /\ pc = "read"
    /\ nread < MaxEvents
    /\ \E ev \in RawEvents : event' = ev
    /\ nread' = nread + 1
    /\ pc' = "parse"
    /\ lastlog' = <<>>
    /\ UNCHANGED <<loadVars, connects, online, outbox, cmdVars, histVars>>

\* a loop without the except clause: the TimeoutError of rtm_read escapes
RtmReadTimeoutEscapes ==
    /\ pc = "read"
    /\ pc' = "crashed"
    /\ lastlog' = <<>>
    /\ UNCHANGED <<loadVars, connects, online, event, nread, outbox, cmdVars,
                   histVars>>

\* rtm_read() raises TimeoutError, caught at line 118-119
RtmReadTimeout ==
    /\ pc = "read"
    /\ pc' = "done"
    /\ lastlog' = <<Log("error", "Connection timeout!", "")>>
    /\ UNCHANGED <<loadVars, connects, online, event, nread, outbox, cmdVars,
                   histVars>>

\* sends put in front of the calls made so far
PostInFront(box, sends, n) ==
    [i \in 1..Len(sends) |-> [msg |-> sends[i].msg,
                              channel |-> sends[i].channel, ev |-> n]] \o box

\* the sends of one handler run, appended to the calls made so far
Post(box, sends, n) ==
    box \o [i \in 1..Len(sends) |-> [msg |-> sends[i].msg,
                                      channel |-> sends[i].channel, ev |-> n]]

\* self._parse_rtm_event(event); sleep(1) (line 114-115).  An exception the
\* handler does not catch leaves enter_rtm_loop and main.
ParseStep ==
    /\ pc = "parse"
    /\ \E fo \in FortuneOutcomes :
          LET r == ParseRtmEvent(event, userIdDict, fo) IN
          /\ outbox' = Post(outbox, r.sends, nread)
          /\ lastlog' = r.log
          /\ pc' = IF r.raised = "none" THEN "read" ELSE "crashed"
    /\ UNCHANGED <<loadVars, connects, online, event, nread, cmdVars, histVars>>

Init ==
    /\ pc = "start"
    /\ userIdDict = <<>>
    /\ loadOk = "pending"
    /\ listed = <<>>
    /\ loads = 0
    /\ connects = 0
    /\ online = FALSE
    /\ event = <<>>
    /\ nread = 0
    /\ outbox = <<>>
    /\ lastlog = <<>>
    /\ cpc = "idle"
    /\ cmd = <<>>
    /\ issuer = "U1"
    /\ hpc = "idle"
    /\ hasMore = TRUE
    /\ cur_cursor = ""
    /\ msgs = <<>>
    /\ calls = <<>>
    /\ upstream = <<>>

Next ==
    InitUserIdDict \/ RtmConnect \/ RtmConnectReturn \/ RtmRead \/ RtmReadTimeout
        \/ ParseStep

Spec == Init /\ [][Next]_vars

(***************************************************************************)
(* _parse_command called on its own: the command string and the issuer are *)
(* drawn from bounded sets.                                                *)
(***************************************************************************)
CmdInit ==
    /\ pc = "idle"
    /\ userIdDict = <<>>
    /\ loadOk = "pending"
    /\ listed = <<>>
    /\ loads = 0
    /\ connects = 0
    /\ online = FALSE
    /\ event = <<>>
    /\ nread = 0
    /\ outbox = <<>>
    /\ lastlog = <<>>
    /\ cpc = "call"
    /\ cmd \in CmdTexts
    /\ issuer \in UserIds
    /\ hpc = "idle"
    /\ hasMore = TRUE
    /\ cur_cursor = ""
    /\ msgs = <<>>
    /\ calls = <<>>
    /\ upstream = <<>>

\* self._parse_command(cmd, issuer) (line 168-204)
CmdCall ==
    /\ cpc = "call"
    /\ \E fo \in FortuneOutcomes :
          LET r == ParseCommand(cmd, issuer, fo) IN
          /\ outbox' = Post(outbox, r.sends, nread)
          /\ cpc' = IF r.raised = "none" THEN "returned" ELSE "raised"
    /\ UNCHANGED <<pc, loadVars, connects, online, event, nread, lastlog, cmd,
                   issuer, histVars>>

CmdNext == CmdCall

SpecCmd == CmdInit /\ [][CmdNext]_vars

(***************************************************************************)
(* fetchHistory                                                            *)
(***************************************************************************)
\* A raw history message is [user, text, ts]; ts, the string
\* "<seconds>.<sequence>", is kept as its two numbers.
\* the messages of one page
PageMessages ==
    { <<>>,
      <<[user |-> "U1", text |-> <<"a">>, ts |-> <<61, 200>>]>>,
      <<[user |-> "U2", text |-> <<"help">>, ts |-> <<86400, 0>>],
        [user |-> "U1", text |-> <<"a">>, ts |-> <<61, 200>>]>> }

Cursors == {"c1", "c2"}

\* responses of conversations.history
HistResponses ==
    {[ok |-> FALSE]}
        \cup {[ok |-> TRUE, has_more |-> FALSE, messages |-> p] : p \in PageMessages}
        \cup {[ok |-> TRUE, has_more |-> TRUE, messages |-> p,
               response_metadata |-> [next_cursor |-> c]] :
                 p \in PageMessages, c \in Cursors}

\* int(msg["ts"].split('.')[0]) (line 75)
UnixTs(ts) == ts[1]

\* datetime.utcfromtimestamp(ts).strftime('%Y-%m-%d %H:%M:%S') (line 76-77):
\* the day since 1970-01-01 and the time of day
Date(t) ==
    [day |-> t \div 86400, hh |-> (t % 86400) \div 3600,
     mm |-> (t % 3600) \div 60, ss |-> t % 60]

\* "{} {}: {}".format(date, user, text) (line 78)
DisplayLine(m, dict) ==
    [date |-> Date(UnixTs(m.ts)), user |-> dict[m.user], text |-> m.text]

\* a loop that puts each line in front of the ones before it
RECURSIVE NormalizeInFront(_, _, _)
NormalizeInFront(messages, dict, acc) ==
    IF messages = <<>> THEN [lines |-> acc, raised |-> FALSE]
    ELSE IF messages[1].user \notin DOMAIN dict THEN [lines |-> acc, raised |-> TRUE]
    ELSE NormalizeInFront(Tail(messages), dict,
                          <<DisplayLine(messages[1], dict)>> \o acc)

\* a loop that writes a placeholder name for a sender it cannot resolve
RECURSIVE NormalizePlaceholder(_, _, _)
NormalizePlaceholder(messages, dict, acc) ==
    IF messages = <<>> THEN [lines |-> acc, raised |-> FALSE]
    ELSE NormalizePlaceholder(Tail(messages), dict,
            Append(acc, [date |-> Date(UnixTs(messages[1].ts)),
                         user |-> IF messages[1].user \in DOMAIN dict
                                  THEN dict[messages[1].user] ELSE "unknown",
                         text |-> messages[1].text]))

\* for msg in rsp["messages"] (line 72-78): the lines appended, and whether
\* self.userIdDict[msg["user"]] raised KeyError
RECURSIVE Normalize(_, _, _)
Normalize(messages, dict, acc) ==
    IF messages = <<>> THEN [lines |-> acc, raised |-> FALSE]
    ELSE IF messages[1].user \notin DOMAIN dict THEN [lines |-> acc, raised |-> TRUE]
    ELSE Normalize(Tail(messages), dict, Append(acc, DisplayLine(messages[1], dict)))

\* fetchHistory(channel) up to its loop (line 58-61), after one load
HistInit ==
    /\ pc = "idle"
    /\ listed \in SeqsUpTo(Members, MaxMembers)
    /\ userIdDict = LoadMembers(<<>>, listed)
    /\ loadOk = "ok"
    /\ loads = 1
    /\ connects = 0
    /\ online = FALSE
    /\ event = <<>>
    /\ nread = 0
    /\ outbox = <<>>
    /\ lastlog = <<>>
    /\ cpc = "idle"
    /\ cmd = <<>>
    /\ issuer = "U1"
    /\ hpc = "fetch"
    /\ hasMore = TRUE
    /\ cur_cursor = ""
    /\ msgs = <<>>
    /\ calls = <<>>
    /\ upstream \in [1..MaxPages -> HistResponses]

\* a page handler that never takes the next cursor
OkPageKeepsCursor(rsp, acc, cursor, dict) ==
    LET r == Normalize(rsp.messages, dict, <<>>) IN
    [hasMore |-> rsp.has_more,
     msgs |-> acc \o r.lines,
     cur_cursor |-> cursor,
     raised |-> r.raised]

\* the locals after a page that reported ok (line 69-84), or the KeyError of
\* an unresolved sender
OkPage(rsp, acc, cursor, dict) ==
    LET r == Normalize(rsp.messages, dict, <<>>) IN
    [hasMore |-> rsp.has_more,
     msgs |-> acc \o r.lines,
     cur_cursor |-> IF ~r.raised /\ rsp.has_more
                    THEN rsp.response_metadata.next_cursor ELSE cursor,
     raised |-> r.raised]

\* a failed page that throws away what was fetched before it
FailedPageDropsAll(acc, cursor) ==
    [hasMore |-> FALSE, msgs |-> <<>>, cur_cursor |-> cursor, raised |-> FALSE]

\* the locals after a page that reported failure (line 85-87)
FailedPage(acc, cursor) ==
    [hasMore |-> FALSE, msgs |-> acc, cur_cursor |-> cursor, raised |-> FALSE]

\* one iteration of while hasMore (line 62-87)
FetchPage ==
    /\ hpc = "fetch"
    /\ hasMore
    /\ Len(calls) < Len(upstream)
    /\ LET rsp == upstream[Len(calls) + 1]
           r == IF rsp.ok THEN OkPage(rsp, msgs, cur_cursor, userIdDict)
                ELSE FailedPage(msgs, cur_cursor) IN
          /\ calls' = Append(calls, cur_cursor)
          /\ hasMore' = r.hasMore
          /\ msgs' = r.msgs
          /\ cur_cursor' = r.cur_cursor
          /\ hpc' = IF r.raised THEN "raised" ELSE "fetch"
          /\ lastlog' = IF r.raised THEN <<>>
                        ELSE IF rsp.ok THEN <<Log("debug", "added messages", "")>>
                        ELSE <<Log("error", "dump", "rsp")>>
    /\ UNCHANGED <<pc, loadVars, connects, online, event, nread, outbox, cmdVars,
                   upstream>>

\* return msgs (line 88)
HistReturn ==
    /\ hpc = "fetch"
    /\ ~hasMore
    /\ hpc' = "returned"
    /\ UNCHANGED <<pc, loadVars, connects, online, event, nread, outbox, lastlog,
                   cmdVars, hasMore, cur_cursor, msgs, calls, upstream>>

HistNext == FetchPage \/ HistReturn

SpecHist == HistInit /\ [][HistNext]_vars

(***************************************************************************)
(* initUserIdDict called on its own, any number of times.                  *)
(***************************************************************************)
LoadInit ==
    /\ pc = "idle"
    /\ userIdDict = <<>>
    /\ loadOk = "pending"
    /\ listed = <<>>
    /\ loads = 0
    /\ connects = 0
    /\ online = FALSE
    /\ event = <<>>
    /\ nread = 0
    /\ outbox = <<>>
    /\ lastlog = <<>>
    /\ cpc = "idle"
    /\ cmd = <<>>
    /\ issuer = "U1"
    /\ hpc = "idle"
    /\ hasMore = TRUE
    /\ cur_cursor = ""
    /\ msgs = <<>>
    /\ calls = <<>>
    /\ upstream = <<>>

\* self.initUserIdDict() (line 90-102)
LoadCall ==
    /\ pc = "idle" /\ cpc = "idle" /\ hpc = "idle"
    /\ loads < MaxLoads
    /\ \E rsp \in UsersListResponses : LoadEffect(rsp)
    /\ UNCHANGED <<pc, connects, online, event, nread, outbox, cmdVars, histVars>>

LoadNext == LoadCall

SpecLoad == LoadInit /\ [][LoadNext]_vars

(***************************************************************************)
(* Every operation that runs after the startup load: the session of main,  *)
(* a _parse_command call, a fetchHistory call.                             *)
(***************************************************************************)
AllInit == Init \/ CmdInit \/ HistInit

AllNext == Next \/ CmdNext \/ HistNext

SpecAll == AllInit /\ [][AllNext]_vars

(***************************************************************************)
(* Properties of the session loop.                                         *)
(***************************************************************************)
\* the sends added by a step
NewSends == SubSeq(outbox', Len(outbox) + 1, Len(outbox'))

\* ev is a regular message whose sender resolves in dict and whose command
\* name, after the sentinel, is name
DispatchesCommand(ev, dict, name) ==
    /\ Len(ev) > 0
    /\ "type" \in DOMAIN ev[1] /\ ev[1]["type"] = "message"
    /\ "subtype" \notin DOMAIN ev[1]
    /\ "text" \in DOMAIN ev[1] /\ "user" \in DOMAIN ev[1]
    /\ ev[1]["user"] \in DOMAIN dict
    /\ Len(ev[1]["text"]) > 0 /\ ev[1]["text"][1] = "."
    /\ Len(CmdSplit(ev[1]["text"])) > 0
    /\ CmdSplit(ev[1]["text"])[1] = name

\* C1: whatever goes wrong while an event is classified or handled, the loop
\* stays connected and goes on to read the next event.
C1_FailureNeverEndsLoop == [][pc = "parse" => pc' = "read"]_vars

\* C2: every dispatched fortune command is followed by at least one send to
\* its issuer, also when the fortune program times out or cannot be started.
C2_FortuneAlwaysReplies ==
    [][(pc = "parse" /\ DispatchesCommand(event, userIdDict, <<"fortune">>))
         => \E i \in 1..Len(NewSends) : NewSends[i].channel = event[1]["user"]]_vars

\* ev lacks a field its kind requires
MissingField(ev) ==
    /\ Len(ev) > 0
    /\ LET rsp == ev[1]
           keys == DOMAIN ev[1] IN
       \/ "type" \notin keys
       \/ /\ rsp["type"] = "message"
          /\ "subtype" \notin keys
          /\ ("text" \notin keys \/ "user" \notin keys)
       \/ /\ rsp["type"] = "message"
          /\ "subtype" \in keys
          /\ rsp["subtype"] \in {"message_deleted", "message_changed"}
          /\ \/ "previous_message" \notin keys
             \/ "text" \notin DOMAIN rsp["previous_message"]
       \/ /\ rsp["type"] = "user_typing"
          /\ "user" \notin keys

FieldNames == {"type", "text", "user", "previous_message", "message"}

\* C5: an event missing a required field is caught and logged as malformed
\* (the KeyError and the payload); nothing is sent, the directory is left as
\* it is and the loop goes on to the next read.
C5_MalformedEventContained ==
    [][(pc = "parse" /\ MissingField(event))
         => /\ outbox' = outbox
            /\ userIdDict' = userIdDict
            /\ pc' = "read"
            /\ Len(lastlog') = 2
            /\ lastlog'[1].level = "error" /\ lastlog'[1].what = "KeyError"
            /\ lastlog'[1].arg \in FieldNames
            /\ lastlog'[2] = Log("error", "dump", "event")]_vars

\* a deleted message without previous_message has been logged as malformed and
\* the loop is back at its read
C5_Witness ==
    /\ pc = "read" /\ nread >= 1 /\ outbox = <<>>
    /\ Len(lastlog) = 2 /\ lastlog[1] = Log("error", "KeyError", "previous_message")

\* C6: a failed membership listing is fatal: no connection is attempted and
\* no event is read.
C6_FailedLoadIsFatal ==
    loadOk = "failed" => (connects = 0 /\ nread = 0 /\ pc \notin {"read", "parse"})

\* the command name of c is not in the command table
UnknownName(c) ==
    /\ Len(CmdSplit(c)) > 0
    /\ CmdSplit(c)[1] \notin {<<"help">>, <<"fortune">>, <<"echo">>}

\* the command names a help text lists
ListedNames(msg) == {msg.lines[i].name : i \in 1..Len(msg.lines)}

\* C7: a command whose name is not in the table (the lookup is case-sensitive)
\* gets exactly two sends, both to the issuer: the unknown-command notice
\* naming the token, then the help text listing help, fortune and echo.
C7_UnknownCommandTwoReplies ==
    [][(cpc = "call" /\ UnknownName(cmd))
         => /\ cpc' = "returned"
            /\ Len(outbox') = 2
            /\ outbox'[1].channel = issuer /\ outbox'[2].channel = issuer
            /\ outbox'[1].msg = [kind |-> "unknown", name |-> CmdSplit(cmd)[1]]
            /\ outbox'[2].msg.kind = "help"
            /\ ListedNames(outbox'[2].msg) = {<<"help">>, <<"fortune">>, <<"echo">>}
            /\ Len(outbox'[2].msg.lines) = 3]_vars

\* ".Help" has been answered with the notice and the help text
C7_Witness ==
    /\ cpc = "returned" /\ cmd = <<".", "Help">>
    /\ Len(outbox) = 2
    /\ outbox[1].msg.kind = "unknown" /\ outbox[1].msg.name = <<"Help">>
    /\ outbox[2].msg.kind = "help"

\* C8: every send made while an event is handled goes to the sender id of the
\* message that triggered it.
C8_RepliesGoToIssuer ==
    [][pc = "parse"
         => \A i \in 1..Len(NewSends) :
               /\ Len(event) > 0
               /\ "user" \in DOMAIN event[1]
               /\ NewSends[i].channel = event[1]["user"]]_vars

\* replies of all four kinds have been sent, to two different issuers
C8_Witness ==
    /\ \E i, j \in 1..Len(outbox) : outbox[i].channel = "U1" /\ outbox[j].channel = "U2"
    /\ \E i, j \in 1..Len(outbox) :
          /\ outbox[i].msg.kind \in {"fortune", "echo"}
          /\ outbox[j].msg.kind \in {"unknown", "help"}

\* ev is a plain message whose text starts with the sentinel
Triggers(ev) ==
    /\ Len(ev) > 0
    /\ "type" \in DOMAIN ev[1] /\ ev[1]["type"] = "message"
    /\ "subtype" \notin DOMAIN ev[1]
    /\ "text" \in DOMAIN ev[1]
    /\ Len(ev[1]["text"]) > 0 /\ ev[1]["text"][1] = "."

\* C9: handling an event that is not a plain message starting with the
\* sentinel sends nothing.
C9_OnlySentinelTriggers ==
    [][(pc = "parse" /\ ~Triggers(event)) => outbox' = outbox]_vars

\* two events were handled, the last a deleted message, and nothing was sent
C9_Witness ==
    /\ pc = "read" /\ nread = 2 /\ outbox = <<>>
    /\ lastlog = <<Log("info", "deleted", "")>>

\* C10: sends happen only while an event is being handled, after it was read
\* and before the next read; they are appended in order and belong to that
\* event, so outbox is ordered by the triggering events.
C10_RepliesInEventOrder ==
    [][/\ nread' >= nread
       /\ nread' # nread => outbox' = outbox
       /\ outbox' # outbox
            => /\ pc = "parse" /\ nread' = nread
               /\ Len(outbox') > Len(outbox)
               /\ SubSeq(outbox', 1, Len(outbox)) = outbox
               /\ \A i \in 1..Len(NewSends) : NewSends[i].ev = nread
       /\ \A i \in 1..Len(outbox) :
             /\ outbox[i].ev <= nread
             /\ i > 1 => outbox[i - 1].ev <= outbox[i].ev]_vars

\* the replies to the first event are followed by the replies to the second
C10_Witness ==
    /\ Len(outbox) >= 3
    /\ outbox[1].ev = 1 /\ outbox[2].ev = 1 /\ outbox[Len(outbox)].ev = 2

(***************************************************************************)
(* Properties of fetchHistory.                                             *)
(***************************************************************************)
\* pages 1..n-1 of u are ok with has_more, page n is ok without
EndsAt(u, n) ==
    /\ \A i \in 1..(n - 1) : u[i].ok /\ u[i].has_more
    /\ u[n].ok /\ ~u[n].has_more

\* pages 1..n-1 of u are ok with has_more, page n reports failure
FailsAt(u, n) ==
    /\ \A i \in 1..(n - 1) : u[i].ok /\ u[i].has_more
    /\ ~u[n].ok

\* the raw messages of pages 1..n of u, in arrival order
RECURSIVE FlatMessages(_, _)
FlatMessages(u, n) ==
    IF n = 0 THEN <<>> ELSE FlatMessages(u, n - 1) \o u[n].messages

AllResolved(raw, dict) == \A i \in 1..Len(raw) : raw[i].user \in DOMAIN dict

\* lines are the raw messages, one line each, in the same order
SameMessages(lines, raw) ==
    /\ Len(lines) = Len(raw)
    /\ \A i \in 1..Len(raw) :
          /\ lines[i].text = raw[i].text
          /\ lines[i].date = Date(raw[i].ts[1])

\* the display lines of the raw messages
LinesOf(raw, dict) ==
    [i \in 1..Len(raw) |->
        [date |-> Date(raw[i].ts[1]), user |-> dict[raw[i].user], text |-> raw[i].text]]

\* C3 as stated: against N pages with has_more and then one without,
\* fetchHistory makes N+1 calls, never more, and returns the messages of
\* all N+1 pages in arrival order.
C3_AsStated ==
    \A n \in 1..Len(upstream) :
       EndsAt(upstream, n)
         => /\ Len(calls) <= n
            /\ hpc # "raised"
            /\ hpc = "returned"
                 => /\ Len(calls) = n
                    /\ SameMessages(msgs, FlatMessages(upstream, n))

\* C3, amended: the same, provided every sender id in those N+1 pages is in
\* the directory; then the loop also always has a next step until it returns.
C3_PaginationComplete ==
    \A n \in 1..Len(upstream) :
       (EndsAt(upstream, n) /\ AllResolved(FlatMessages(upstream, n), userIdDict))
         => /\ Len(calls) <= n
            /\ hpc # "raised"
            /\ hpc = "fetch" => ENABLED HistNext
            /\ hpc = "returned"
                 => /\ Len(calls) = n
                    /\ msgs = LinesOf(FlatMessages(upstream, n), userIdDict)

\* three pages were fetched and returned, the last one the page without has_more
C3_Witness ==
    /\ hpc = "returned" /\ Len(upstream) >= 3
    /\ EndsAt(upstream, 3)
    /\ AllResolved(FlatMessages(upstream, 3), userIdDict)
    /\ Len(calls) = 3 /\ Len(msgs) >= 4
    /\ msgs[1].user # msgs[2].user

\* C4 as stated: against k ok pages with has_more and then a failure,
\* fetchHistory returns normally the messages of those k pages and makes no
\* call after the failed one.
C4_AsStated ==
    \A n \in 1..Len(upstream) :
       FailsAt(upstream, n)
         => /\ Len(calls) <= n
            /\ hpc # "raised"
            /\ hpc = "returned"
                 => /\ Len(calls) = n
                    /\ SameMessages(msgs, FlatMessages(upstream, n - 1))

\* C4, amended: the same, provided every sender id in those k pages is in the
\* directory.
C4_PartialResult ==
    \A n \in 1..Len(upstream) :
       (FailsAt(upstream, n) /\ AllResolved(FlatMessages(upstream, n - 1), userIdDict))
         => /\ Len(calls) <= n
            /\ hpc # "raised"
            /\ hpc = "fetch" => ENABLED HistNext
            /\ hpc = "returned"
                 => /\ Len(calls) = n
                    /\ msgs = LinesOf(FlatMessages(upstream, n - 1), userIdDict)

\* the second page failed and the two messages of the first were returned
C4_Witness ==
    /\ hpc = "returned" /\ Len(upstream) >= 2
    /\ FailsAt(upstream, 2)
    /\ Len(calls) = 2 /\ Len(msgs) = 2

(***************************************************************************)
(* Properties of the directory.                                            *)
(***************************************************************************)
\* C11: once the startup load is over, no operation (handling an event,
\* dispatching a command, sending, fetching history) changes the directory.
C11_DirectoryWriteOnce == [][pc # "start" => userIdDict' = userIdDict]_vars

\* two events were handled and a reply sent, and the directory is still what
\* the load made of the listing
C11_Witness ==
    /\ pc = "read" /\ nread = 2 /\ Len(outbox) >= 1
    /\ DOMAIN userIdDict = {"U1", "U2"}
    /\ userIdDict = LoadMembers(<<>>, listed)

\* the entries of a listing: each id with the name of its last entry
ListingIds(l) == {l[i].id : i \in 1..Len(l)}

ListingName(l, id) ==
    LET last == CHOOSE i \in 1..Len(l) :
                   l[i].id = id /\ \A j \in (i + 1)..Len(l) : l[j].id # id
    IN l[last].real_name

\* C12: after a successful load the directory holds exactly the entries of
\* the listing just fetched; an id of an earlier load only does not resolve.
C12_LoadOverwrites ==
    loadOk = "ok"
      => /\ DOMAIN userIdDict = ListingIds(listed)
         /\ \A id \in DOMAIN userIdDict : userIdDict[id] = ListingName(listed, id)

(***************************************************************************)
(* Properties of the connection.                                           *)
(***************************************************************************)
\* the state of the session loop
SessionState ==
    IF pc \in {"read", "parse"} THEN "Connected"
    ELSE IF pc = "connecting" THEN "Connecting"
    ELSE "Disconnected"

\* C13: the loop goes Disconnected -> Connecting -> Connected with a single
\* connect attempt; events are read only after a successful handshake; after a
\* failed handshake the loop ends Disconnected and nothing more happens: no
\* event is read, nothing is sent, the connect is not tried again.
C13_SingleConnectAttempt ==
    [][/\ connects' <= 1
       /\ SessionState' = "Connecting" => SessionState \in {"Disconnected", "Connecting"}
       /\ (SessionState' = "Connected" /\ SessionState # "Connected")
            => (SessionState = "Connecting" /\ online')
       /\ nread' > nread => (SessionState = "Connected" /\ online)
       /\ (pc = "connecting" /\ ~online')
            => (pc' = "done" /\ nread' = 0 /\ outbox' = <<>> /\ connects' = 1)
       /\ pc # "done"]_vars

\* the handshake failed and the loop has ended
C13_Witness ==
    /\ pc = "done" /\ ~online /\ connects = 1 /\ nread = 0 /\ outbox = <<>>
    /\ lastlog = <<Log("error", "Connection Failed", "")>>

\* C17: a read that times out while connected is caught and logged and ends
\* the loop: no further event is read, nothing is sent, no connect is tried
\* again, and the timeout does not leave enter_rtm_loop.
C17_ReadTimeoutEndsLoop ==
    [][/\ (pc = "read" /\ nread' = nread)
            => /\ pc' = "done"
               /\ lastlog' = <<Log("error", "Connection timeout!", "")>>
               /\ outbox' = outbox
               /\ connects' = connects
       /\ (pc = "done" /\ online) => FALSE]_vars

\* one event was handled, then the read timed out and the loop has ended
C17_Witness ==
    /\ pc = "done" /\ online /\ nread = 1 /\ connects = 1
    /\ lastlog = <<Log("error", "Connection timeout!", "")>>

(***************************************************************************)
(* More properties of the session loop.                                    *)
(***************************************************************************)
\* C14: a help command in a plain message from a user in the directory gets
\* exactly one send, to that user: the help text listing help, fortune and
\* echo with their descriptions.
C14_HelpOneReply ==
    [][(pc = "parse" /\ DispatchesCommand(event, userIdDict, <<"help">>))
         => /\ Len(NewSends) = 1
            /\ NewSends[1].channel = event[1]["user"]
            /\ NewSends[1].msg.kind = "help"
            /\ NewSends[1].msg.lines =
                 << [name |-> <<"help">>, descr |-> "displays this list of commands"],
                    [name |-> <<"fortune">>,
                     descr |-> "print a random, hopefully interesting, adage"],
                    [name |-> <<"echo">>, descr |-> "test command"] >>
            /\ pc' = "read"]_vars

\* ".help" from U1, with the directory {U1: Alice}, was answered by one send
C14_Witness ==
    /\ pc = "read" /\ nread = 1
    /\ userIdDict = ("U1" :> "Alice")
    /\ event = <<("type" :> "message") @@ ("text" :> <<".", "help">>) @@ ("user" :> "U1")>>
    /\ Len(outbox) = 1 /\ outbox[1].channel = "U1" /\ outbox[1].msg.kind = "help"

\* ev is a plain message starting with the sentinel whose sender is not in dict
UnresolvedIssuer(ev, dict) ==
    /\ Triggers(ev)
    /\ "user" \in DOMAIN ev[1]
    /\ ev[1]["user"] \notin DOMAIN dict

\* C19: a plain message starting with the sentinel whose sender id is not in
\* the directory is logged as an error and nothing at all is sent; the loop
\* goes on to the next read.
C19_UnresolvedIssuerNoDispatch ==
    [][(pc = "parse" /\ UnresolvedIssuer(event, userIdDict))
         => /\ outbox' = outbox
            /\ pc' = "read"
            /\ Len(lastlog') = 2
            /\ lastlog'[1] = Log("error", "KeyError", event[1]["user"])
            /\ lastlog'[2] = Log("error", "dump", "event")]_vars

\* ".help" from U2, who is not in the directory, was handled: nothing was sent
\* and the loop is back at its read
C19_Witness ==
    /\ pc = "read" /\ nread = 1 /\ outbox = <<>>
    /\ "U1" \in DOMAIN userIdDict
    /\ event = <<("type" :> "message") @@ ("text" :> <<".", "help">>) @@ ("user" :> "U2")>>
    /\ UnresolvedIssuer(event, userIdDict)
    /\ lastlog[1] = Log("error", "KeyError", "U2")

TokenStarts(s) ==
    {i \in 1..Len(s) : s[i] \notin Whitespace /\ (i = 1 \/ s[i - 1] \in Whitespace)}

\* the last position of the run of non-whitespace that starts at i
TokenEnd(s, i) ==
    CHOOSE j \in i..Len(s) :
        /\ \A k \in i..j : s[k] \notin Whitespace
        /\ (j = Len(s) \/ s[j + 1] \in Whitespace)

\* the k-th token start from the left
NthStart(s, k) ==
    CHOOSE i \in TokenStarts(s) : Cardinality({j \in TokenStarts(s) : j < i}) = k - 1

\* the whitespace-separated tokens of s, left to right
Tokens(s) ==
    [k \in 1..Cardinality(TokenStarts(s)) |->
        SubSeq(s, NthStart(s, k), TokenEnd(s, NthStart(s, k)))]

\* C15: the command is what follows the sentinel, split on whitespace.  When
\* the first token is echo, exactly one reply goes to the issuer and carries
\* the remaining tokens in their order (none when there are no arguments);
\* when there is no token at all nothing is sent and the call returns.
C15_EchoRepliesWithArguments ==
    [][cpc = "call"
         => LET toks == Tokens(Tail(cmd)) IN
            /\ toks = <<>> => (outbox' = outbox /\ cpc' = "returned")
            /\ (toks # <<>> /\ toks[1] = <<"echo">>)
                 => /\ cpc' = "returned"
                    /\ Len(outbox') = Len(outbox) + 1
                    /\ outbox'[Len(outbox')].channel = issuer
                    /\ outbox'[Len(outbox')].msg =
                          [kind |-> "echo", args |-> Tail(toks)]]_vars

\* ".echo a help" has been answered with the two arguments in order
C15_Witness ==
    /\ cpc = "returned"
    /\ cmd = <<".", "echo", " ", "a", " ", "help">>
    /\ Len(outbox) = 1
    /\ outbox[1].channel = issuer
    /\ outbox[1].msg = [kind |-> "echo", args |-> << <<"a">>, <<"help">> >>]

(***************************************************************************)
(* More properties of fetchHistory.                                        *)
(***************************************************************************)
\* C16: the first call carries the empty cursor; every later call carries
\* the next_cursor of the response just before it, and that response
\* reported ok with has_more.
C16_CursorProtocol ==
    /\ Len(calls) >= 1 => calls[1] = ""
    /\ \A i \in 2..Len(calls) :
          /\ upstream[i - 1].ok
          /\ upstream[i - 1].has_more
          /\ calls[i] = upstream[i - 1].response_metadata.next_cursor

\* three calls were made, each later one with the cursor just handed out
C16_Witness ==
    /\ calls = <<"", "c1", "c2">>
    /\ upstream[1].response_metadata.next_cursor = "c1"
    /\ upstream[2].response_metadata.next_cursor = "c2"

\* page n of u is the first page with a sender that is not in dict, and the
\* loop gets as far as fetching it
UnresolvedAt(u, n, dict) ==
    /\ \A i \in 1..(n - 1) :
          u[i].ok /\ u[i].has_more /\ AllResolved(u[i].messages, dict)
    /\ u[n].ok
    /\ ~AllResolved(u[n].messages, dict)

\* the messages of a page that come before its first unresolved sender
ResolvedPrefix(raw, dict) ==
    LET k == CHOOSE j \in 1..Len(raw) :
                /\ raw[j].user \notin DOMAIN dict
                /\ \A i \in 1..(j - 1) : raw[i].user \in DOMAIN dict
    IN  SubSeq(raw, 1, k - 1)

\* C18: when page n is the first to hold a message whose sender is not in the
\* directory, fetchHistory never returns: it raises while handling page n,
\* having produced lines only for the messages before that one (none for it,
\* under no name), and makes no call after the n-th.
C18_UnresolvedSenderRaises ==
    \A n \in 1..Len(upstream) :
       UnresolvedAt(upstream, n, userIdDict)
         => /\ Len(calls) <= n
            /\ hpc # "returned"
            /\ hpc = "fetch" => (Len(calls) < n /\ ENABLED FetchPage)
            /\ hpc = "raised"
                 => /\ Len(calls) = n
                    /\ msgs = LinesOf(FlatMessages(upstream, n - 1)
                                        \o ResolvedPrefix(upstream[n].messages,
                                                          userIdDict),
                                      userIdDict)

\* the second page held a message of U1, who is not listed, after one of U2,
\* who is: the call raised with the lines made so far
C18_Witness ==
    /\ hpc = "raised" /\ Len(calls) = 2
    /\ DOMAIN userIdDict = {"U2"}
    /\ UnresolvedAt(upstream, 2, userIdDict)
    /\ Len(upstream[1].messages) = 0
    /\ Len(msgs) = 1 /\ msgs[1].user = userIdDict["U2"]

====
